---- MODULE Spec2Model ----
(***************************************************************************)
(* compas_cra.equilibrium.pyomo_helper: the formula table (initialisations,*)
(* bounds, objectives, constraints), the two assembly routines             *)
(* (equilibrium_setup, static_equilibrium_constraints) and the result      *)
(* write-back (pyomo_result_assembly).                                     *)
(*                                                                         *)
(* Python lists and pyomo index sets are 0-based: arrays of the model are  *)
(* functions over 0 .. n-1; ordered collections that the code only walks   *)
(* (graph nodes, graph edges, the interfaces of an edge, the forces of an  *)
(* interface) are sequences, element k of the code being element k+1 here. *)
(* Floats are integers; pyomo expressions are kept as expression trees.    *)
(***************************************************************************)
EXTENDS Integers, Sequences, FiniteSets, TLC

VARIABLES
    nodes,   \* assembly.graph nodes, in graph order: is_support, volume, displacement
    edges,   \* assembly.graph edges, in graph order: each the list of its interfaces
    model,   \* the pyomo model: the values of f and q, whether q exists
    ret      \* the last call: function, arguments, returned value

vars == <<nodes, edges, model, ret>>

----------------------------------------------------------------------------
(* Bounds of the model *)

MaxNodes == 3
MaxEdges == 2
MaxIfaces == 2
MaxContacts == 3
MaxWeight == 2
MaxDensity == 2

----------------------------------------------------------------------------
(* Helpers *)

RECURSIVE SumSeq(_)
SumSeq(s) == IF s = <<>> THEN 0 ELSE s[1] + SumSeq(Tail(s))

RECURSIVE Concat(_)
Concat(ss) == IF ss = <<>> THEN <<>> ELSE ss[1] \o Concat(Tail(ss))

None == "None"

NoDisplacement == <<>>

\* len(interface.points) summed over the interfaces of one edge / of all edges
EdgePoints(edge) == SumSeq([j \in 1..Len(edge) |-> edge[j].points])

TotalPoints(es) == SumSeq([e \in 1..Len(es) |-> EdgePoints(es[e])])

\* every order in which the elements of a set can be listed
Orderings(S) ==
    {s \in [1..Cardinality(S) -> S] : \A i, j \in 1..Cardinality(S) : i # j => s[i] # s[j]}

----------------------------------------------------------------------------
(* pyomo expressions: variables of the model, constants, sums, products *)

Var(name, idx) == <<"var", name, idx>>

F(i) == Var("f", <<i>>)

D(i) == Var("d", <<i>>)

Alpha(i) == Var("alpha", <<i>>)

\* component xyz of row r of model.forces / model.displs
Forces(r, xyz) == Var("forces", <<r, xyz>>)

Displs(r, xyz) == Var("displs", <<r, xyz>>)

Const(c) == <<"const", c>>

Add(a, b) == <<"add", a, b>>

Mul(a, b) == <<"mul", a, b>>

Neg(a) == <<"neg", a>>

\* the Python value None inside a returned tuple
NoBound == <<"none">>

\* one product a * b * coef of a sum of squares
Term(coef, a, b) == [coef |-> coef, a |-> a, b |-> b]

----------------------------------------------------------------------------
(* initialisations *)

f_tilde_init(i) == IF i % 4 = 1 THEN 0 ELSE 1

Initialisations(variable, i) ==
    /\ ret' = [fn |-> "initialisations", variable |-> variable, i |-> i,
               value |-> IF variable = "f_tilde" THEN f_tilde_init(i) ELSE None]
    /\ UNCHANGED <<nodes, edges, model>>

----------------------------------------------------------------------------
(* bounds *)

\* fn- left unrestricted
f_tilde_bnds_OnlyFirst(i) == IF i % 4 = 0 THEN "NonNegativeReals" ELSE "Reals"

f_tilde_bnds(i) == IF i % 4 = 0 \/ i % 4 = 1 THEN "NonNegativeReals" ELSE "Reals"

f_bnds(i) == IF i % 3 = 0 THEN "NonNegativeReals" ELSE "Reals"

d_bnds(d_bnd, i) == <<Const(-d_bnd), D(i), Const(d_bnd)>>

Bounds(variable, d_bnd, i) ==
    /\ ret' = [fn |-> "bounds", variable |-> variable, i |-> i,
               value |-> IF variable = "f" THEN f_bnds(i)
                         ELSE IF variable = "f_tilde" THEN f_tilde_bnds(i)
                         ELSE IF variable = "d" THEN d_bnds(d_bnd, i)
                         ELSE None]
    /\ UNCHANGED <<nodes, edges, model>>

----------------------------------------------------------------------------
(* objectives: the returned function applied to the model, as the list of *)
(* the products it sums; weights = (W_alpha, W_compression, W_tension)    *)

\* pyo.dot_product(model.alpha, model.alpha)
DotProductAlpha(m) == [j \in 1..m.nalpha |-> Term(1, Alpha(j - 1), Alpha(j - 1))]

Scaled(terms, w) == [k \in 1..Len(terms) |-> [terms[k] EXCEPT !.coef = @ * w]]

\* the tension and compression weights exchanged
obj_weights_term_Swapped(weights, i) ==
    IF i % 4 = 1 THEN <<Term(weights[1], F(i), F(i))>>
    ELSE IF i % 4 = 0 THEN <<Term(weights[2], F(i), F(i))>>
    ELSE <<>>

\* what one pass of the loop of _obj_weights adds to f_sum
obj_weights_term(weights, i) ==
    IF i % 4 = 1 THEN <<Term(weights[2], F(i), F(i))>>
    ELSE IF i % 4 = 0 THEN <<Term(weights[1], F(i), F(i))>>
    ELSE <<>>

\* the loop of _obj_weights over model.f_id, from index i on
RECURSIVE obj_weights_from(_, _, _)
obj_weights_from(m, weights, i) ==
    IF i >= m.nf THEN <<>>
    ELSE obj_weights_term(weights, i) \o obj_weights_from(m, weights, i + 1)

obj_weights(m, weights) == obj_weights_from(m, weights, 0)

obj_rbe(m, weights) == obj_weights(m, weights)

\* the loop of obj_cra over model.f_id, from index i on
RECURSIVE obj_cra_from(_, _)
obj_cra_from(m, i) ==
    IF i >= m.nf THEN <<>>
    ELSE (IF i % 3 = 0 THEN <<Term(1, F(i), F(i))>> ELSE <<>>) \o obj_cra_from(m, i + 1)

obj_cra(m, weights) == obj_cra_from(m, 0) \o DotProductAlpha(m)

obj_cra_penalty(m, weights) == Scaled(DotProductAlpha(m), weights[0]) \o obj_weights(m, weights)

Objectives(solver, weights) ==
    /\ ret' = [fn |-> "objectives", solver |-> solver, weights |-> weights,
               value |-> IF solver = "cra" THEN obj_cra(model, weights)
                         ELSE IF solver = "cra_penalty" THEN obj_cra_penalty(model, weights)
                         ELSE obj_rbe(model, weights)]
    /\ UNCHANGED <<nodes, edges, model>>

----------------------------------------------------------------------------
(* constraints: the tuple the returned function gives for contact i; pyomo *)
(* reads (expr, rhs) as expr = rhs and (lower, expr, upper) as a range     *)

contact_con(eps, i) == <<Mul(Add(D(i * 3), Const(eps)), F(i * 3)), Const(0)>>

penalty_contact_con(eps, i) == <<Mul(Add(D(i * 3), Const(eps)), F(i * 4)), Const(0)>>

fn_np_con(i) == <<Mul(F(i * 4), F(i * 4 + 1)), Const(0)>>

no_penetration_con(eps, t) == <<Const(0), Add(D(t * 3), Const(eps)), NoBound>>

ft_dt_con(i, xyz) ==
    <<Add(Forces(i * 3 + 1, xyz), Forces(i * 3 + 2, xyz)),
      Mul(Neg(Add(Displs(i * 3 + 1, xyz), Displs(i * 3 + 2, xyz))), Alpha(i))>>

\* the tangential forces taken where the three-component layout has them
penalty_ft_dt_con_Layout3(i, xyz) == ft_dt_con(i, xyz)

penalty_ft_dt_con(i, xyz) ==
    <<Add(Forces(i * 4 + 2, xyz), Forces(i * 4 + 3, xyz)),
      Mul(Neg(Add(Displs(i * 3 + 1, xyz), Displs(i * 3 + 2, xyz))), Alpha(i))>>

Constraints(name, eps, i, xyz) ==
    /\ ret' = [fn |-> "constraints", name |-> name, eps |-> eps, i |-> i, xyz |-> xyz,
               value |-> IF name = "contact" THEN contact_con(eps, i)
                         ELSE IF name = "penalty_contact" THEN penalty_contact_con(eps, i)
                         ELSE IF name = "fn_np" THEN fn_np_con(i)
                         ELSE IF name = "no_penetration" THEN no_penetration_con(eps, i)
                         ELSE IF name = "ft_dt" THEN ft_dt_con(i, xyz)
                         ELSE penalty_ft_dt_con(i, xyz)]
    /\ UNCHANGED <<nodes, edges, model>>

----------------------------------------------------------------------------
(* pyomo_result_assembly *)

Shift(penalty) == IF ~penalty THEN 3 ELSE 4

CnpIdx(offset, shift, i) == offset + shift * i + 0

CnnIdx(offset, shift, i) == offset + shift * i + 1

\* c_u read where the no-penalty layout has it, whatever the shift
CuIdx_NoPenaltyStep(offset, shift, i) == offset + shift * i + 1

CuIdx(offset, shift, i) == offset + shift * i + 1 + (IF shift = 4 THEN 1 ELSE 0)

CvIdx(offset, shift, i) == offset + shift * i + 2 + (IF shift = 4 THEN 1 ELSE 0)

\* the dictionary appended for contact point i
ForceRecord(f, offset, shift, i) ==
    [c_np |-> f[CnpIdx(offset, shift, i)],
     c_nn |-> IF shift = 4 THEN f[CnnIdx(offset, shift, i)] ELSE 0,
     c_u  |-> f[CuIdx(offset, shift, i)],
     c_v  |-> f[CvIdx(offset, shift, i)]]

\* the indices of model.f evaluated for contact point i, in evaluation order
ForceReads(offset, shift, i) ==
    <<CnpIdx(offset, shift, i)>>
    \o (IF shift = 4 THEN <<CnnIdx(offset, shift, i)>> ELSE <<>>)
    \o <<CuIdx(offset, shift, i), CvIdx(offset, shift, i)>>

\* the inner loop: interface.forces of an interface with n points
InterfaceForces(f, offset, shift, n) ==
    [k \in 1..n |-> ForceRecord(f, offset, shift, k - 1)]

InterfaceReads(offset, shift, n) ==
    Concat([k \in 1..n |-> ForceReads(offset, shift, k - 1)])

\* the loop over the interfaces of one edge; offset += shift * n after each
RECURSIVE SaveInterfaces(_, _, _, _)
SaveInterfaces(interfaces, f, shift, offset) ==
    IF interfaces = <<>>
    THEN [interfaces |-> <<>>, offset |-> offset, reads |-> <<>>]
    ELSE LET n == interfaces[1].points
             saved == [points |-> n, forces |-> InterfaceForces(f, offset, shift, n)]
             rest == SaveInterfaces(Tail(interfaces), f, shift, offset + shift * n)
         IN [interfaces |-> <<saved>> \o rest.interfaces,
             offset |-> rest.offset,
             reads |-> InterfaceReads(offset, shift, n) \o rest.reads]

\* the loop over the edges of the graph
RECURSIVE SaveEdges(_, _, _, _)
SaveEdges(es, f, shift, offset) ==
    IF es = <<>>
    THEN [edges |-> <<>>, offset |-> offset, reads |-> <<>>]
    ELSE LET first == SaveInterfaces(es[1], f, shift, offset)
             rest == SaveEdges(Tail(es), f, shift, first.offset)
         IN [edges |-> <<first.interfaces>> \o rest.edges,
             offset |-> rest.offset,
             reads |-> first.reads \o rest.reads]

\* q[0:6]: the offset forgotten
Slice_FromStart(q, n, offset) ==
    [k \in 1..(IF 6 <= n THEN 6 ELSE n) |-> q[k - 1]]

\* q[offset:offset + 6]; a Python slice stops at the end of the list
Slice(q, n, offset) ==
    [k \in 1..(IF offset + 6 <= n THEN 6 ELSE IF offset < n THEN n - offset ELSE 0)
        |-> q[offset + k - 1]]

\* the loop over the nodes of the graph: supports are skipped
RECURSIVE SaveDisplacements(_, _, _, _)
SaveDisplacements(ns, q, n, offset) ==
    IF ns = <<>> THEN <<>>
    ELSE IF ns[1].is_support
         THEN <<ns[1]>> \o SaveDisplacements(Tail(ns), q, n, offset)
         ELSE <<[ns[1] EXCEPT !.displacement = Slice(q, n, offset)]>>
              \o SaveDisplacements(Tail(ns), q, n, offset + 6)

\* A read of model.f outside its index set raises KeyError inside pyomo: the
\* call is made on a model whose f covers the shift * N entries it walks.
PyomoResultAssembly(penalty, verbose) ==
    LET shift == Shift(penalty)
        saved == SaveEdges(edges, model.f, shift, 0)
    IN /\ shift * TotalPoints(edges) <= model.nf
       /\ edges' = saved.edges
       /\ nodes' = IF model.has_q
                   THEN SaveDisplacements(nodes, model.q, model.nq, 0)
                   ELSE nodes
       /\ ret' = [fn |-> "pyomo_result_assembly", penalty |-> penalty,
                  reads |-> saved.reads]
       /\ UNCHANGED model

----------------------------------------------------------------------------
(* equilibrium_setup *)

\* make_aeq (cra_helper): six rows per node, three columns per contact vertex;
\* row r is kept as the label r
MakeAeq(ns, es) ==
    [aeq |-> [rows |-> [r \in 0..(6 * Len(ns) - 1) |-> r], ncols |-> 3 * TotalPoints(es)],
     vcount |-> TotalPoints(es)]

\* key_index: the node at position k of graph.nodes() has index k - 1
KeyIndex(k) == k - 1

Fixed(ns) == {KeyIndex(k) : k \in {j \in 1..Len(ns) : ns[j].is_support = TRUE}}

\* set(range(num_nodes)) - set(fixed); list() of it walks the set in an order
\* the language does not fix
FreeSet(ns) == (0..(Len(ns) - 1)) \ Fixed(ns)

\* the first rows of the matrix instead of the rows of the free nodes
RowSelection_ByPosition(free) ==
    [j \in 1..(6 * Len(free)) |-> j - 1]

\* [index * 6 + i for index in free for i in range(6)]
RowSelection(free) ==
    [j \in 1..(6 * Len(free)) |-> free[((j - 1) \div 6) + 1] * 6 + ((j - 1) % 6)]

\* aeq[selection, :]
TakeRows(matrix, selection) ==
    [rows |-> [j \in 0..(Len(selection) - 1) |-> matrix.rows[selection[j + 1]]],
     ncols |-> matrix.ncols]

EquilibriumSetup ==
    \E free \in Orderings(FreeSet(nodes)) :
        LET made == MakeAeq(nodes, edges)
        IN /\ ret' = [fn |-> "equilibrium_setup",
                      aeq |-> TakeRows(made.aeq, RowSelection(free)),
                      vcount |-> made.vcount,
                      free |-> free]
           /\ UNCHANGED <<nodes, edges, model>>

----------------------------------------------------------------------------
(* static_equilibrium_constraints *)

\* make_afr (cra_helper): fcon_number rows and three columns per contact vertex
MakeAfr(vcount, fcon_number, mu) ==
    [nrows |-> fcon_number * vcount, ncols |-> 3 * vcount, mu |-> mu]

\* p: one row [0, 0, -volume * density, 0, 0, 0] per node, by node index
Loads(ns, density) ==
    [index \in 0..(Len(ns) - 1) |->
        [c \in 0..5 |-> IF c = 2 THEN -(ns[index + 1].volume * density) ELSE 0]]

\* p.reshape((-1, 1)) without the selection of the free nodes
FreeLoads_AllNodes(p, free) ==
    [j \in 1..(6 * Cardinality(DOMAIN p)) |-> p[(j - 1) \div 6][(j - 1) % 6]]

\* p[free, :].reshape((-1, 1), order='C'), flattened
FreeLoads(p, free) ==
    [j \in 1..(6 * Len(free)) |-> p[free[((j - 1) \div 6) + 1]][(j - 1) % 6]]

Negated(v) == [j \in 1..Len(v) |-> -v[j]]

MatrixConstraint(A, lb, ub, x) == [A |-> A, lb |-> lb, ub |-> ub, x |-> x]

\* called with what equilibrium_setup returned
StaticEquilibriumConstraints(density, mu) ==
    /\ ret.fn = "equilibrium_setup"
    /\ LET p == FreeLoads(Loads(nodes, density), ret.free)
           afr == MakeAfr(ret.vcount, 8, mu)
       IN ret' = [fn |-> "static_equilibrium_constraints",
                  free |-> ret.free, density |-> density,
                  equilibrium_constraints |->
                      MatrixConstraint(ret.aeq, Negated(p), Negated(p), "array_f"),
                  friction_constraint |->
                      MatrixConstraint(afr, [r \in 1..afr.nrows |-> None],
                                       [r \in 1..afr.nrows |-> 0], "array_f")]
    /\ UNCHANGED <<nodes, edges, model>>

----------------------------------------------------------------------------
(* Initial states *)

Interface(n) == [points |-> n, forces |-> <<>>]

\* lists of at most k interfaces with at most b contact points in all
RECURSIVE InterfaceLists(_, _)
InterfaceLists(k, b) ==
    IF k = 0 THEN {<<>>}
    ELSE {<<>>} \cup UNION {{<<Interface(n)>> \o s : s \in InterfaceLists(k - 1, b - n)}
                            : n \in 0..b}

\* lists of at most e edges with at most b contact points in all
RECURSIVE EdgeLists(_, _)
EdgeLists(e, b) ==
    IF e = 0 THEN {<<>>}
    ELSE {<<>>} \cup UNION {{<<is>> \o es : es \in EdgeLists(e - 1, b - EdgePoints(is))}
                            : is \in InterfaceLists(MaxIfaces, b)}

\* blocks of pairwise different volume: a weight identifies its node
Node(k, support) == [is_support |-> support, volume |-> k + 1, displacement |-> NoDisplacement]

NodeLists(n) ==
    UNION {{[k \in 1..m |-> Node(k, s[k])] : s \in [1..m -> BOOLEAN]} : m \in 1..n}

\* the solved values the write-back copies: pairwise different and none of
\* them 0, so that a stored value tells which entry it was read from
Solutions == {"rising", "falling"}

FValue(solution, i) == IF solution = "rising" THEN 10 + i ELSE -10 - i

QValue(solution, i) == IF solution = "rising" THEN 100 + i ELSE -100 - i

\* the model built for an assembly: shift entries of f per contact point,
\* six entries of q per free node when the formulation has q
Model(ns, es, penalty, has_q, solution) ==
    LET nf == Shift(penalty) * TotalPoints(es)
        nq == IF has_q THEN 6 * Cardinality(FreeSet(ns)) ELSE 0
    IN [penalty |-> penalty, nf |-> nf, f |-> [i \in 0..(nf - 1) |-> FValue(solution, i)],
        has_q |-> has_q, nq |-> nq, q |-> [i \in 0..(nq - 1) |-> QValue(solution, i)],
        nalpha |-> TotalPoints(es), nd |-> 3 * TotalPoints(es)]

NoCall == [fn |-> "none"]

\* many edges and interfaces, two nodes
InitForces ==
    /\ nodes = <<Node(1, TRUE), Node(2, FALSE)>>
    /\ edges \in EdgeLists(MaxEdges, MaxContacts)
    /\ \E penalty \in BOOLEAN, has_q \in BOOLEAN, solution \in Solutions :
           model = Model(nodes, edges, penalty, has_q, solution)
    /\ ret = NoCall

NextForces == \E penalty \in BOOLEAN, verbose \in BOOLEAN : PyomoResultAssembly(penalty, verbose)

SpecForces == InitForces /\ [][NextForces]_vars

\* one edge, two nodes
InitFormulas ==
    /\ nodes = <<Node(1, TRUE), Node(2, FALSE)>>
    /\ \E is \in InterfaceLists(MaxIfaces, MaxContacts) : edges = <<is>>
    /\ \E penalty \in BOOLEAN : model = Model(nodes, edges, penalty, FALSE, "rising")
    /\ ret = NoCall

Variables == {"f_tilde", "f", "d"}

Solvers == {"cra", "cra_penalty", "rbe"}

ConstraintNames == {"contact", "penalty_contact", "fn_np", "no_penetration", "ft_dt",
                    "penalty_ft_dt"}

Weights == [0..2 -> 1..MaxWeight]

Epsilons == {0, 1}

\* the index set of a variable of the model
IndexSet(variable) == IF variable = "d" THEN 0..(model.nd - 1) ELSE 0..(model.nf - 1)

\* contacts, and the xyz components a tangential constraint is indexed by
Contacts == 0..(model.nalpha - 1)

Components(name) == IF name \in {"ft_dt", "penalty_ft_dt"} THEN 0..2 ELSE {0}

NextFormulas ==
    \/ \E variable \in Variables : \E i \in IndexSet(variable) : Initialisations(variable, i)
    \/ \E variable \in Variables : \E i \in IndexSet(variable) : Bounds(variable, 1, i)
    \/ \E solver \in Solvers, weights \in Weights : Objectives(solver, weights)
    \/ \E name \in ConstraintNames, eps \in Epsilons : \E i \in Contacts :
           \E xyz \in Components(name) : Constraints(name, eps, i, xyz)
    \/ \E penalty \in BOOLEAN, verbose \in BOOLEAN : PyomoResultAssembly(penalty, verbose)

SpecFormulas == InitFormulas /\ [][NextFormulas]_vars

Densities == 1..MaxDensity

FrictionCoefficients == {1, 2}

\* many nodes, one edge
InitNodes ==
    /\ nodes \in NodeLists(MaxNodes)
    /\ edges = <<<<Interface(2)>>>>
    /\ \E penalty \in BOOLEAN, has_q \in BOOLEAN, solution \in Solutions :
           model = Model(nodes, edges, penalty, has_q, solution)
    /\ ret = NoCall

Init == InitNodes

Next ==
    \/ EquilibriumSetup
    \/ \E density \in Densities, mu \in FrictionCoefficients :
           StaticEquilibriumConstraints(density, mu)
    \/ \E penalty \in BOOLEAN, verbose \in BOOLEAN : PyomoResultAssembly(penalty, verbose)

Spec == Init /\ [][Next]_vars

----------------------------------------------------------------------------
(* Properties of pyomo_result_assembly *)

\* contact points of the interfaces visited before interface j of edge e
PointsBefore(e, j) ==
    SumSeq([a \in 1..(e - 1) |-> EdgePoints(edges[a])])
    + SumSeq([b \in 1..(j - 1) |-> edges[e][b].points])

Occurrences(s, x) == Cardinality({k \in 1..Len(s) : s[k] = x})

\* C1: after pyomo_result_assembly, contact point i of an interface holds
\* c_np = f[offset + shift*i], and c_nn, c_u, c_v from the next three entries
\* (penalty) or c_nn = 0 and c_u, c_v from the next two (no penalty), where
\* offset = shift * (contact points of the interfaces visited before); over the
\* assembly every index of 0 .. shift*N - 1 is read exactly once, no other is.
C1_ForcesByOffset ==
    ret.fn = "pyomo_result_assembly" =>
        LET shift == IF ret.penalty THEN 4 ELSE 3
            total == TotalPoints(edges)
            f == model.f
        IN /\ \A e \in 1..Len(edges) : \A j \in 1..Len(edges[e]) :
                  LET offset == shift * PointsBefore(e, j)
                      forces == edges[e][j].forces
                  IN /\ Len(forces) = edges[e][j].points
                     /\ \A i \in 0..(edges[e][j].points - 1) :
                            /\ forces[i + 1].c_np = f[offset + shift * i]
                            /\ ret.penalty =>
                                   /\ forces[i + 1].c_nn = f[offset + 4 * i + 1]
                                   /\ forces[i + 1].c_u = f[offset + 4 * i + 2]
                                   /\ forces[i + 1].c_v = f[offset + 4 * i + 3]
                            /\ ~ret.penalty =>
                                   /\ forces[i + 1].c_nn = 0
                                   /\ forces[i + 1].c_u = f[offset + 3 * i + 1]
                                   /\ forces[i + 1].c_v = f[offset + 3 * i + 2]
           /\ \A x \in 0..(shift * total - 1) : Occurrences(ret.reads, x) = 1
           /\ \A k \in 1..Len(ret.reads) : ret.reads[k] \in 0..(shift * total - 1)

\* a penalty call on an assembly whose second edge has an interface of two or
\* more points that comes after other contact points
C1_Witness ==
    /\ ret.fn = "pyomo_result_assembly"
    /\ ret.penalty
    /\ Len(edges) >= 2
    /\ \E j \in 1..Len(edges[2]) :
           /\ PointsBefore(2, j) > 0
           /\ edges[2][j].points >= 2
           /\ Len(edges[2][j].forces) = 2

----------------------------------------------------------------------------
(* Properties over the nodes *)

\* the number of non-support nodes before position k of the graph's nodes
FreeRank(ns, k) == Cardinality({a \in 1..(k - 1) : ~ns[a].is_support})

ResultCall == \E penalty \in BOOLEAN, verbose \in BOOLEAN : PyomoResultAssembly(penalty, verbose)

\* C2: a call of pyomo_result_assembly on a model with q gives the k-th
\* non-support node (graph order, from 0) displacement q[6k .. 6k+5] and leaves
\* every support node's displacement as it was; on a model without q it
\* changes no node's displacement.
C2_Displacements ==
    [][ResultCall =>
          /\ Len(nodes') = Len(nodes)
          /\ \A k \in 1..Len(nodes) :
                 IF model.has_q /\ ~nodes[k].is_support
                 THEN nodes'[k].displacement =
                          [m \in 1..6 |-> model.q[6 * FreeRank(nodes, k) + m - 1]]
                 ELSE nodes'[k].displacement = nodes[k].displacement]_vars

\* written with q: a support node precedes the second free node
C2_Witness ==
    /\ ret.fn = "pyomo_result_assembly"
    /\ model.has_q
    /\ \E s, k \in 1..Len(nodes) :
           /\ s < k
           /\ nodes[s].is_support
           /\ ~nodes[k].is_support
           /\ FreeRank(nodes, k) >= 1
           /\ nodes[k].displacement = [m \in 1..6 |-> model.q[6 * FreeRank(nodes, k) + m - 1]]
           /\ nodes[s].displacement = NoDisplacement

\* C3: equilibrium_setup returns in free each index of a node that is not a
\* support exactly once and no index of a support, and as matrix the rows
\* 6*index + 0 .. 6*index + 5 of make_aeq's matrix for each index of free, in
\* the order of free, with every column.
C3_FreeRows ==
    ret.fn = "equilibrium_setup" =>
        LET made == MakeAeq(nodes, edges).aeq
            free == ret.free
        IN /\ \A k \in 1..Len(nodes) :
                  Occurrences(free, k - 1) = (IF nodes[k].is_support = TRUE THEN 0 ELSE 1)
           /\ \A a \in 1..Len(free) : free[a] \in 0..(Len(nodes) - 1)
           /\ DOMAIN ret.aeq.rows = 0..(6 * Len(free) - 1)
           /\ \A a \in 1..Len(free) : \A i \in 0..5 :
                  ret.aeq.rows[6 * (a - 1) + i] = made.rows[6 * free[a] + i]
           /\ ret.aeq.ncols = made.ncols

\* two or more free nodes after a support
C3_Witness ==
    /\ ret.fn = "equilibrium_setup"
    /\ Len(ret.free) >= 2
    /\ nodes[1].is_support
    /\ DOMAIN ret.aeq.rows = 0..(6 * Len(ret.free) - 1)

\* C8: the equilibrium constraint is an equality block: for the k-th entry n
\* of free, rows 6k .. 6k+5 have lower = upper bound, volume(n) * density on
\* row 6k+2 and 0 on the others, 6 * len(free) rows in all, none of a support;
\* every friction row has no lower bound and upper bound 0; both constraints
\* are over model.array_f.
C8_ConstraintBlocks ==
    ret.fn = "static_equilibrium_constraints" =>
        LET eq == ret.equilibrium_constraints
            fr == ret.friction_constraint
            free == ret.free
        IN /\ eq.lb = eq.ub
           /\ Len(eq.ub) = 6 * Len(free)
           /\ \A k \in 0..(Len(free) - 1) :
                  /\ ~nodes[free[k + 1] + 1].is_support
                  /\ \A i \in 0..5 :
                         eq.ub[6 * k + i + 1] =
                             (IF i = 2 THEN nodes[free[k + 1] + 1].volume * ret.density ELSE 0)
           /\ Len(fr.lb) = fr.A.nrows
           /\ Len(fr.ub) = fr.A.nrows
           /\ \A r \in 1..fr.A.nrows : fr.lb[r] = None /\ fr.ub[r] = 0
           /\ eq.x = "array_f"
           /\ fr.x = "array_f"

\* the blocks of two free nodes after a support, with friction rows
C8_Witness ==
    /\ ret.fn = "static_equilibrium_constraints"
    /\ Len(ret.free) >= 2
    /\ nodes[1].is_support
    /\ ret.density > 1
    /\ Len(ret.equilibrium_constraints.ub) = 6 * Len(ret.free)
    /\ ret.friction_constraint.A.nrows > 0

----------------------------------------------------------------------------
(* Properties of the formula table *)

\* the coefficient of the product a * b in a sum of products: two sums of
\* products take the same value on every model exactly when these agree
Coef(terms, a, b) ==
    SumSeq([k \in 1..Len(terms) |->
               IF {terms[k].a, terms[k].b} = {a, b} THEN terms[k].coef ELSE 0])

ModelVars == {F(i) : i \in 0..(model.nf - 1)} \cup {Alpha(j) : j \in 0..(model.nalpha - 1)}

OverModelVars(terms) == \A k \in 1..Len(terms) : {terms[k].a, terms[k].b} \subseteq ModelVars

W_alpha(weights) == weights[0]

W_compression(weights) == weights[1]

W_tension(weights) == weights[2]

IsF(v) == v[2] = "f"

IndexOf(v) == v[3][1]

\* C4: objectives('cra', weights) is W_compression * sum of f[i]^2 over
\* i % 3 = 0 plus W_alpha * sum of alpha[j]^2; tangential indices contribute
\* nothing.
C4_CraObjective ==
    (ret.fn = "objectives" /\ ret.solver = "cra") =>
        /\ OverModelVars(ret.value)
        /\ \A a, b \in ModelVars :
               Coef(ret.value, a, b) =
                   (IF a # b THEN 0
                    ELSE IF IsF(a)
                         THEN (IF IndexOf(a) % 3 = 0 THEN W_compression(ret.weights) ELSE 0)
                         ELSE W_alpha(ret.weights))

\* C5: objectives('rbe', weights) is W_compression * sum of f[i]^2 over
\* i % 4 = 0 plus W_tension * sum of f[i]^2 over i % 4 = 1, nothing from
\* i % 4 in {2, 3}; objectives('cra_penalty', weights) is that plus
\* W_alpha * sum of alpha[j]^2.
C5_WeightedObjectives ==
    (ret.fn = "objectives" /\ ret.solver \in {"rbe", "cra_penalty"}) =>
        /\ OverModelVars(ret.value)
        /\ \A a, b \in ModelVars :
               Coef(ret.value, a, b) =
                   (IF a # b THEN 0
                    ELSE IF IsF(a)
                         THEN (IF IndexOf(a) % 4 = 0 THEN W_compression(ret.weights)
                               ELSE IF IndexOf(a) % 4 = 1 THEN W_tension(ret.weights)
                               ELSE 0)
                         ELSE IF ret.solver = "cra_penalty" THEN W_alpha(ret.weights) ELSE 0)

\* both objectives on a model of two or more contacts, with three different
\* weights
C5_Witness ==
    /\ ret.fn = "objectives"
    /\ ret.solver = "cra_penalty"
    /\ model.nf >= 8
    /\ W_compression(ret.weights) # W_tension(ret.weights)
    /\ Coef(ret.value, F(5), F(5)) = W_tension(ret.weights)
    /\ Coef(ret.value, Alpha(1), Alpha(1)) = W_alpha(ret.weights)

InDomain(v, domain) == domain = "Reals" \/ (domain = "NonNegativeReals" /\ v >= 0)

\* C6: bounds('f_tilde') restricts index i to the non-negative reals exactly
\* when i % 4 is 0 or 1, bounds('f') exactly when i % 3 = 0, and leaves the
\* other indices unrestricted; the initial value of initialisations('f_tilde')
\* (0 when i % 4 = 1, otherwise 1) lies in the bounds('f_tilde') domain of i.
C6_ForceDomains ==
    /\ (ret.fn = "bounds" /\ ret.variable = "f_tilde") =>
           /\ ret.value = "NonNegativeReals" <=> ret.i % 4 \in {0, 1}
           /\ ret.value = "Reals" <=> ret.i % 4 \in {2, 3}
    /\ (ret.fn = "bounds" /\ ret.variable = "f") =>
           /\ ret.value = "NonNegativeReals" <=> ret.i % 3 = 0
           /\ ret.value = "Reals" <=> ret.i % 3 \in {1, 2}
    /\ (ret.fn = "initialisations" /\ ret.variable = "f_tilde") =>
           /\ ret.value = (IF ret.i % 4 = 1 THEN 0 ELSE 1)
           /\ InDomain(ret.value, f_tilde_bnds(ret.i))

\* the initial value 0 of the fn- entry of the second contact
C6_Witness ==
    /\ ret.fn = "initialisations"
    /\ ret.variable = "f_tilde"
    /\ ret.i = 5
    /\ ret.value = 0
    /\ f_tilde_bnds(ret.i) = "NonNegativeReals"

\* C7: constraints('no_penetration', eps) is for contact i the equality
\* fn+[i] * (dn[i] + eps) = 0, the formula the documentation gives for it and
\* for penalty_contact.
C7_NoPenetrationComplementarity ==
    (ret.fn = "constraints" /\ ret.name = "no_penetration") =>
        /\ Len(ret.value) = 2
        /\ ret.value[2] = Const(0)
        /\ ret.value[1] \in {Mul(Add(D(3 * ret.i), Const(ret.eps)), F(4 * ret.i)),
                             Mul(F(4 * ret.i), Add(D(3 * ret.i), Const(ret.eps)))}

----------------------------------------------------------------------------
(* The component layouts *)

Layout4 == <<"fn+", "fn-", "fu", "fv">>

Layout3 == <<"fn", "fu", "fv">>

\* what a layout makes of index k, and the index it gives a contact's component
Role4(k) == Layout4[(k % 4) + 1]

Role3(k) == Layout3[(k % 3) + 1]

Index4(contact, role) == 4 * contact + (CHOOSE p \in 0..3 : Layout4[p + 1] = role)

Index3(contact, role) == 3 * contact + (CHOOSE p \in 0..2 : Layout3[p + 1] = role)

RECURSIVE VarsOf(_)
VarsOf(expr) ==
    IF expr[1] = "var" THEN {expr}
    ELSE IF expr[1] \in {"const", "none"} THEN {}
    ELSE IF expr[1] = "neg" THEN VarsOf(expr[2])
    ELSE VarsOf(expr[2]) \cup VarsOf(expr[3])

ConstraintVars(con) == UNION {VarsOf(con[k]) : k \in 1..Len(con)}

LayoutOfBounds ==
    /\ (ret.fn = "bounds" /\ ret.variable = "f_tilde") =>
           (ret.value = "NonNegativeReals" <=> Role4(ret.i) \in {"fn+", "fn-"})
    /\ (ret.fn = "bounds" /\ ret.variable = "f") =>
           (ret.value = "NonNegativeReals" <=> Role3(ret.i) = "fn")

LayoutOfObjectives ==
    /\ (ret.fn = "objectives" /\ ret.solver \in {"rbe", "cra_penalty"}) =>
           \A k \in 0..(model.nf - 1) :
               Coef(ret.value, F(k), F(k)) =
                   (IF Role4(k) = "fn+" THEN W_compression(ret.weights)
                    ELSE IF Role4(k) = "fn-" THEN W_tension(ret.weights)
                    ELSE 0)
    /\ (ret.fn = "objectives" /\ ret.solver = "cra") =>
           \A k \in 0..(model.nf - 1) :
               Coef(ret.value, F(k), F(k)) # 0 <=> Role3(k) = "fn"

LayoutOfConstraints ==
    ret.fn = "constraints" =>
        LET i == ret.i
            xyz == ret.xyz
            used == ConstraintVars(ret.value)
        IN /\ ret.name = "fn_np" => used = {F(Index4(i, "fn+")), F(Index4(i, "fn-"))}
           /\ ret.name = "penalty_contact" => used = {F(Index4(i, "fn+")), D(Index3(i, "fn"))}
           /\ ret.name = "penalty_ft_dt" =>
                  used = {Forces(Index4(i, "fu"), xyz), Forces(Index4(i, "fv"), xyz),
                          Displs(Index3(i, "fu"), xyz), Displs(Index3(i, "fv"), xyz), Alpha(i)}
           /\ ret.name = "contact" => used = {F(Index3(i, "fn")), D(Index3(i, "fn"))}
           /\ ret.name = "ft_dt" =>
                  used = {Forces(Index3(i, "fu"), xyz), Forces(Index3(i, "fv"), xyz),
                          Displs(Index3(i, "fu"), xyz), Displs(Index3(i, "fv"), xyz), Alpha(i)}

LayoutOfResult ==
    ret.fn = "pyomo_result_assembly" =>
        \A e \in 1..Len(edges) : \A j \in 1..Len(edges[e]) :
            \A i \in 0..(edges[e][j].points - 1) :
                LET contact == PointsBefore(e, j) + i
                    force == edges[e][j].forces[i + 1]
                IN IF ret.penalty
                   THEN /\ force.c_np = model.f[Index4(contact, "fn+")]
                        /\ force.c_nn = model.f[Index4(contact, "fn-")]
                        /\ force.c_u = model.f[Index4(contact, "fu")]
                        /\ force.c_v = model.f[Index4(contact, "fv")]
                   ELSE /\ force.c_np = model.f[Index3(contact, "fn")]
                        /\ force.c_u = model.f[Index3(contact, "fu")]
                        /\ force.c_v = model.f[Index3(contact, "fv")]

\* C9: every function reads the per-contact layout the same way: in
\* (fn+, fn-, fu, fv) index 4i is fn+ and 4i+1 is fn- for bounds('f_tilde'),
\* the rbe and cra_penalty objectives, fn_np, penalty_contact, penalty_ft_dt
\* (tangential 4i+2, 4i+3 with displacements 3i+1, 3i+2) and the penalty
\* write-back; in (fn, fu, fv) index 3i is the normal one for bounds('f'), the
\* cra objective, contact, ft_dt and the write-back without penalty.
C9_LayoutConsistency ==
    /\ LayoutOfBounds
    /\ LayoutOfObjectives
    /\ LayoutOfConstraints
    /\ LayoutOfResult

\* the tangential constraint of the penalty formulation at the second contact,
\* where the two layouts give different indices
C9_Witness ==
    /\ ret.fn = "constraints"
    /\ ret.name = "penalty_ft_dt"
    /\ ret.i = 1
    /\ Forces(6, ret.xyz) \in ConstraintVars(ret.value)
    /\ Displs(4, ret.xyz) \in ConstraintVars(ret.value)

====
